---------------------------- MODULE Spec2Model ----------------------------
(***************************************************************************)
(* PathVisioN AR navigation backend (src/AR_backend.py).                   *)
(*                                                                         *)
(* The model covers the SQLite database (tables pois and navigation_logs), *)
(* the start-up routine init_db, the five HTTP handlers and the two        *)
(* geodesic helpers calculate_distance and calculate_bearing.              *)
(*                                                                         *)
(* Python floats are modelled as decimal floating-point numbers with an    *)
(* eight-digit significand, [m |-> significand, e |-> exponent] standing   *)
(* for m * 10^e with 10^7 <= |m| < 10^8 (or m = 0).  Every arithmetic      *)
(* operation rounds its result to eight digits (round-half-even), so the   *)
(* rounding effects of the source's float arithmetic (a haversine term     *)
(* that overshoots 1, a distance that lands exactly on a threshold) occur  *)
(* in the model as they do in the program, at a coarser grain.             *)
(***************************************************************************)
EXTENDS Integers, Sequences, FiniteSets, TLC

---------------------------------------------------------------------------
(* Decimal floating point: the arithmetic behind Python's float operators. *)
(* Operators hand intermediate results on as arguments, so that each is    *)
(* written (and evaluated) once.                                           *)

Lo == 10^7
Hi == 10^8
Limb == 10^4

Zero == [m |-> 0, e |-> 0]

Abs(n) == IF n < 0 THEN -n ELSE n

Sign(n) == IF n < 0 THEN -1 ELSE 1

Signed(s, x) == [m |-> s * x.m, e |-> x.e]

FNeg(x) == [m |-> -x.m, e |-> x.e]

FAbs(x) == [m |-> Abs(x.m), e |-> x.e]

\* Round-half-even: the quotient q of a division that left remainder r.
RoundHalfEven(q, r, half) ==
    IF r > half \/ (r = half /\ q % 2 = 1) THEN q + 1 ELSE q

\* n \div 10^k for n >= 0, rounded half-even.
RoundDiv(n, k) ==
    IF k = 0 THEN n ELSE RoundHalfEven(n \div 10^k, n % 10^k, 5 * 10^(k - 1))

\* A rounded significand may have reached 10^8.
Pack(q, e) == IF q = Hi THEN [m |-> Lo, e |-> e + 1] ELSE [m |-> q, e |-> e]

RECURSIVE ScaleUp(_, _)
ScaleUp(n, e) == IF n >= Lo THEN [m |-> n, e |-> e] ELSE ScaleUp(n * 10, e - 1)

ScaleDown(n, e, k) == Pack(RoundDiv(n, k), e + k)

\* The float nearest to n * 10^e, for 0 <= n < 2^31.
NormAbs(n, e) ==
    IF n = 0 THEN Zero
    ELSE IF n < Lo THEN ScaleUp(n, e)
    ELSE ScaleDown(n, e, IF n >= 10^9 THEN 2 ELSE IF n >= Hi THEN 1 ELSE 0)

Norm(n, e) == Signed(Sign(n), NormAbs(Abs(n), e))

\* A decimal literal of the source: Dec(185204, -4) is 18.5204.
Dec(n, e) == Norm(n, e)

ShiftDown(n, k) == Sign(n) * RoundDiv(Abs(n), k)

\* x + y with x.e >= y.e, both non-zero: one guard digit, then rounding.
AddOrdered(x, y) ==
    IF x.e - y.e >= 10 THEN x
    ELSE Norm(x.m * 10 + ShiftDown(y.m * 10, x.e - y.e), x.e - 1)

FAdd(x, y) ==
    IF x.m = 0 THEN y
    ELSE IF y.m = 0 THEN x
    ELSE AddOrdered(IF x.e >= y.e THEN x ELSE y, IF x.e >= y.e THEN y ELSE x)

FSub(x, y) == FAdd(x, FNeg(y))

\* |x| * |y| for non-zero x, y: the 16-digit product of the significands, from
\* two 4-digit limbs each, rounded to eight digits.
RoundProduct(high, low, e) ==
    IF high >= Lo
      THEN Pack(RoundHalfEven(high, low, 5 * Lo), e + 8)
      ELSE Pack(RoundHalfEven(high * 10 + low \div Lo, low % Lo, 5 * 10^6), e + 7)

CarryProduct(high, low, e) == RoundProduct(high + low \div Hi, low % Hi, e)

LimbProduct(hh, cross, ll, e) ==
    CarryProduct(hh + cross \div Limb, (cross % Limb) * Limb + ll, e)

MulLimbs(ah, al, bh, bl, e) == LimbProduct(ah * bh, ah * bl + al * bh, al * bl, e)

MulAbs(a, b, e) == MulLimbs(a \div Limb, a % Limb, b \div Limb, b % Limb, e)

FMul(x, y) ==
    IF x.m = 0 \/ y.m = 0 THEN Zero
    ELSE Signed(Sign(x.m) * Sign(y.m), MulAbs(Abs(x.m), Abs(y.m), x.e + y.e))

\* Long division: n more quotient digits of r / b appended to acc.
RECURSIVE LongDiv(_, _, _, _)
LongDiv(r, b, n, acc) ==
    IF n = 0 THEN acc
    ELSE LongDiv((r % b) * 10, b, n - 1, acc * 10 + (r \div b))

\* x / y for y # 0.
FDiv(x, y) ==
    IF x.m = 0 THEN Zero
    ELSE Signed(Sign(x.m) * Sign(y.m),
                NormAbs(LongDiv(Abs(x.m), Abs(y.m), 9, 0), x.e - y.e - 8))

\* x < y: the significands decide unless both are non-zero, of one sign and of
\* different exponents.
FLt(x, y) ==
    IF x.m = 0 \/ y.m = 0 \/ (x.m < 0) # (y.m < 0) \/ x.e = y.e THEN x.m < y.m
    ELSE IF x.m > 0 THEN x.e < y.e ELSE y.e < x.e

FLe(x, y) == ~FLt(y, x)

One == [m |-> 10000000, e |-> -7]
Two == [m |-> 20000000, e |-> -7]
Half == [m |-> 50000000, e |-> -8]

---------------------------------------------------------------------------
(* The math module functions the source calls.                             *)

RECURSIVE IntSqrt(_, _)
IntSqrt(n, g) == IF (g + n \div g) \div 2 >= g THEN g ELSE IntSqrt(n, (g + n \div g) \div 2)

NewtonSqrt(x, g) == FMul(FAdd(g, FDiv(x, g)), Half)

\* The square root of n * 10^e, e even, to four digits.
SqrtSeed(n, e) == NormAbs(IntSqrt(n, 31623), e \div 2)

\* math.sqrt for x >= 0 (the caller decides what a negative argument does).
FSqrt(x) ==
    IF x.m = 0 THEN Zero
    ELSE NewtonSqrt(x, NewtonSqrt(x,
            IF x.e % 2 = 1 THEN SqrtSeed(x.m * 10, x.e - 1) ELSE SqrtSeed(x.m, x.e)))

Pi == [m |-> 31415927, e |-> -7]
TwoPi == [m |-> 62831853, e |-> -7]
HalfPi == [m |-> 15707963, e |-> -7]
QuarterPi == [m |-> 78539816, e |-> -8]

\* 1/3!, 1/5!, ... and 1/2!, 1/4!, ... : the Taylor coefficients of sin and cos.
SinCoeff == << [m |-> 16666667, e |-> -8], [m |-> 83333333, e |-> -10],
               [m |-> 19841270, e |-> -11], [m |-> 27557319, e |-> -13],
               [m |-> 25052108, e |-> -15] >>
CosCoeff == << [m |-> 50000000, e |-> -8], [m |-> 41666667, e |-> -9],
               [m |-> 13888889, e |-> -10], [m |-> 24801587, e |-> -12],
               [m |-> 27557319, e |-> -14], [m |-> 20876757, e |-> -16] >>
\* 1/3, 1/5, ..., 1/21 : the coefficients of the arctangent series.
AtanCoeff == << [m |-> 33333333, e |-> -8], [m |-> 20000000, e |-> -8],
                [m |-> 14285714, e |-> -8], [m |-> 11111111, e |-> -8],
                [m |-> 90909091, e |-> -9], [m |-> 76923077, e |-> -9],
                [m |-> 66666667, e |-> -9], [m |-> 58823529, e |-> -9],
                [m |-> 52631579, e |-> -9], [m |-> 47619048, e |-> -9] >>

\* c[i] - z*(c[i+1] - z*(c[i+2] - ...)) : an alternating series, Horner form.
RECURSIVE Horner(_, _, _)
Horner(z, c, i) ==
    IF i = Len(c) THEN c[i] ELSE FSub(c[i], FMul(z, Horner(z, c, i + 1)))

\* x - x^3/3! + ... and 1 - x^2/2! + ..., with z = x*x.
SinSeries(x, z) == FMul(x, FSub(One, FMul(z, Horner(z, SinCoeff, 1))))

SinCore(x) == SinSeries(x, FMul(x, x))

CosSeries(z) == FSub(One, FMul(z, Horner(z, CosCoeff, 1)))

CosCore(x) == CosSeries(FMul(x, x))

\* Argument reduction: [-2 pi, 2 pi] to [-pi, pi], then to [-pi/2, pi/2].
Reduce(x) ==
    IF FLt(Pi, x) THEN FSub(x, TwoPi)
    ELSE IF FLt(x, FNeg(Pi)) THEN FAdd(x, TwoPi)
    ELSE x

Fold(r) ==
    IF FLt(HalfPi, r) THEN FSub(Pi, r)
    ELSE IF FLt(r, FNeg(HalfPi)) THEN FSub(FNeg(Pi), r)
    ELSE r

\* sin r for |r| <= pi/2: beyond pi/4 it is the cosine of the complement.
SinHalf(r) ==
    IF FLt(QuarterPi, FAbs(r))
      THEN Signed(Sign(r.m), CosCore(FSub(HalfPi, FAbs(r))))
      ELSE SinCore(r)

\* math.sin and math.cos, for |x| <= 2 pi.
FSin(x) == SinHalf(Fold(Reduce(x)))

FCos(x) == SinHalf(Fold(FSub(HalfPi, FAbs(Reduce(x)))))

TanPi8 == [m |-> 41421356, e |-> -8]

\* u - u^3/3 + u^5/5 - ..., with z = u*u.
AtanSeries(u, z) == FMul(u, FSub(One, FMul(z, Horner(z, AtanCoeff, 1))))

AtanCore(u) == AtanSeries(u, FMul(u, u))

\* atan(t) for 0 <= t <= 1.
Atan01(t) ==
    IF FLt(TanPi8, t)
      THEN FAdd(QuarterPi, AtanCore(FDiv(FSub(t, One), FAdd(t, One))))
      ELSE AtanCore(t)

\* atan(y/x) for y > 0, x > 0.
AtanPos(y, x) ==
    IF FLt(x, y) THEN FSub(HalfPi, Atan01(FDiv(x, y))) ELSE Atan01(FDiv(y, x))

\* The angle t of (|x|, |y|) taken to the quadrant of (x, y).
Quadrant(y, x, t) == Signed(Sign(y.m), IF x.m < 0 THEN FSub(Pi, t) ELSE t)

\* math.atan2: atan2(0, x) is 0 for x >= 0 (so atan2(0, 0) = 0) and pi for x < 0.
FAtan2(y, x) ==
    IF y.m = 0 THEN (IF x.m >= 0 THEN Zero ELSE Pi)
    ELSE IF x.m = 0 THEN (IF y.m > 0 THEN HalfPi ELSE FNeg(HalfPi))
    ELSE Quadrant(y, x, AtanPos(FAbs(y), FAbs(x)))

\* math.radians(x) is x * (pi / 180); math.degrees(x) is x * (180 / pi).
radians(x) == FMul(x, [m |-> 17453293, e |-> -9])

degrees(x) == FMul(x, [m |-> 57295780, e |-> -6])

\* x % y for 0 <= x < 2y, y > 0 (Python's float modulo).
FMod(x, y) == IF FLe(y, x) THEN FSub(x, y) ELSE x

\* round(x, 1): to one decimal place.
Round1(x) ==
    IF x.e >= -1 THEN x
    ELSE IF -1 - x.e >= 9 THEN Zero
    ELSE Norm(ShiftDown(x.m, -1 - x.e), -1)

---------------------------------------------------------------------------
(* Utility functions of the source.                                        *)

\* Earth's radius in meters.
R == Dec(6371000, 0)

\* a = sin(delta_lat/2) * sin(delta_lat/2)
\*     + cos(lat1_rad) * cos(lat2_rad) * sin(delta_lon/2) * sin(delta_lon/2)
Squared(x) == FMul(x, x)

TimesTwice(x, y) == FMul(FMul(x, y), y)

HaversineTerm(lat1_rad, lat2_rad, delta_lat, delta_lon) ==
    FAdd(Squared(FSin(FDiv(delta_lat, Two))),
         TimesTwice(FMul(FCos(lat1_rad), FCos(lat2_rad)), FSin(FDiv(delta_lon, Two))))

\* c = 2 * atan2(sqrt(a), sqrt(1 - a)); return R * c.  math.sqrt raises
\* ValueError (math domain error) when 1 - a is negative.
GreatCircle(a, rest) ==
    IF rest.m < 0
      THEN [raised |-> TRUE, value |-> Zero]
      ELSE [raised |-> FALSE,
            value |-> FMul(R, FMul(Two, FAtan2(FSqrt(a), FSqrt(rest))))]

HaversineDistance(a) == GreatCircle(a, FSub(One, a))

\* calculate_distance: [raised |-> TRUE] for the ValueError, else the distance
\* in meters.
calculate_distance(lat1, lon1, lat2, lon2) ==
    HaversineDistance(HaversineTerm(radians(lat1), radians(lat2),
                                    radians(FSub(lat2, lat1)),
                                    radians(FSub(lon2, lon1))))

\* NormalizeBearing with the normalisation left out: atan2's angle as it comes.
NormalizeBearingMissing(bearing) == bearing

\* (bearing + 360) % 360.
NormalizeBearing(bearing) == FMod(FAdd(bearing, Dec(360, 0)), Dec(360, 0))

\* y = sin(delta_lon) * cos(lat2_rad)
BearingY(lat2_rad, delta_lon) == FMul(FSin(delta_lon), FCos(lat2_rad))

\* x = cos(lat1_rad) * sin(lat2_rad) - sin(lat1_rad) * cos(lat2_rad) * cos(delta_lon)
BearingX(lat1_rad, lat2_rad, delta_lon) ==
    FSub(FMul(FCos(lat1_rad), FSin(lat2_rad)),
         FMul(FMul(FSin(lat1_rad), FCos(lat2_rad)), FCos(delta_lon)))

\* bearing = atan2(y, x); return (degrees(bearing) + 360) % 360.
InitialBearing(lat1_rad, lat2_rad, delta_lon) ==
    NormalizeBearing(degrees(FAtan2(BearingY(lat2_rad, delta_lon),
                                    BearingX(lat1_rad, lat2_rad, delta_lon))))

calculate_bearing(lat1, lon1, lat2, lon2) ==
    InitialBearing(radians(lat1), radians(lat2), radians(FSub(lon2, lon1)))

---------------------------------------------------------------------------
(* The database pathvision.db and the requests the handlers receive.       *)

VARIABLES
    db,              \* pathvision.db: [pois |-> rows, navigation_logs |-> rows]
    response,        \* the response to the request handled last
    init_runs,       \* number of times init_db has run against the database
    route_requests,  \* number of POST /api/route requests received
    routes_answered, \* number of them answered 200 with the provider's data
    ar_watch,        \* an earlier AR-overlay request and its answer
    geo              \* a pair of coordinates and what the utility functions return

vars == << db, response, init_runs, route_requests, routes_answered, ar_watch, geo >>

\* Bounds of the model.
MaxInitRuns == 2
MaxRouteRequests == 2

\* Insert sample POIs (name, category, latitude, longitude, description, indoor_map).
sample_pois == <<
    [name |-> "Main Entrance", category |-> "entrance", latitude |-> Dec(185204, -4),
     longitude |-> Dec(738567, -4), description |-> "Primary building entrance",
     indoor_map |-> "floor_1_map.json"],
    [name |-> "Cafeteria", category |-> "dining", latitude |-> Dec(185210, -4),
     longitude |-> Dec(738575, -4), description |-> "Student dining area",
     indoor_map |-> "floor_2_map.json"],
    [name |-> "Library", category |-> "education", latitude |-> Dec(185215, -4),
     longitude |-> Dec(738580, -4), description |-> "Central library",
     indoor_map |-> "floor_3_map.json"],
    [name |-> "Restroom", category |-> "facilities", latitude |-> Dec(185200, -4),
     longitude |-> Dec(738560, -4), description |-> "Public restroom facilities",
     indoor_map |-> "floor_1_map.json"],
    [name |-> "Information Desk", category |-> "service", latitude |-> Dec(185208, -4),
     longitude |-> Dec(738570, -4), description |-> "Help and information",
     indoor_map |-> "floor_1_map.json"],
    [name |-> "Parking Area", category |-> "parking", latitude |-> Dec(185195, -4),
     longitude |-> Dec(738550, -4), description |-> "Vehicle parking zone",
     indoor_map |-> "ground_map.json"],
    [name |-> "Emergency Exit", category |-> "safety", latitude |-> Dec(185212, -4),
     longitude |-> Dec(738565, -4), description |-> "Emergency evacuation route",
     indoor_map |-> "floor_1_map.json"],
    [name |-> "Conference Hall", category |-> "meeting", latitude |-> Dec(185218, -4),
     longitude |-> Dec(738585, -4), description |-> "Large meeting space",
     indoor_map |-> "floor_2_map.json"] >>

\* A request parameter or JSON key: absent, or present with a value.
NoArg == [given |-> FALSE]
Arg(v) == [given |-> TRUE, value |-> v]

\* Python truthiness of an optional float: None and 0.0 are falsy.
TruthyFloat(v) == v.given /\ v.value.m # 0

\* Python truthiness of an optional list: None and [] are falsy.
TruthyList(v) == v.given /\ Len(v.value) > 0

\* The device positions of the requests that compute distances: the main
\* entrance, and a point 100 m from the restroom.
AtEntrance == [lat |-> Dec(185204, -4), lon |-> Dec(738567, -4)]
NearRestroom == [lat |-> Dec(1852043, -5), lon |-> Dec(73856833, -6)]

\* calculate_distance and calculate_bearing from these positions to every
\* sample POI, computed once and looked up by the handlers' calls; a call with
\* other arguments is computed where it is made.
MemoKeys ==
    { << p.lat, p.lon, sample_pois[k].latitude, sample_pois[k].longitude >>
      : p \in {AtEntrance, NearRestroom}, k \in 1..Len(sample_pois) }

DistanceMemo ==
    [ q \in MemoKeys |-> calculate_distance(q[1], q[2], q[3], q[4]) ] @@ << >>

BearingMemo ==
    [ q \in MemoKeys |-> calculate_bearing(q[1], q[2], q[3], q[4]) ] @@ << >>

MemoOr(memo, key, direct) == IF key \in DOMAIN memo THEN memo[key] ELSE direct

DistanceTo(lat1, lon1, lat2, lon2) ==
    MemoOr(DistanceMemo, << lat1, lon1, lat2, lon2 >>,
           calculate_distance(lat1, lon1, lat2, lon2))

BearingTo(lat1, lon1, lat2, lon2) ==
    MemoOr(BearingMemo, << lat1, lon1, lat2, lon2 >>,
           calculate_bearing(lat1, lon1, lat2, lon2))

---------------------------------------------------------------------------
(* SQLite.  A table is the sequence of its rows in rowid order; id is an     *)
(* INTEGER PRIMARY KEY, so an insert that names no id gets the largest id    *)
(* plus one.                                                                 *)

LastRowId(rows) == IF Len(rows) = 0 THEN 0 ELSE rows[Len(rows)].id

PoiRow(id, v) ==
    [id |-> id, name |-> v.name, category |-> v.category, latitude |-> v.latitude,
     longitude |-> v.longitude, description |-> v.description,
     indoor_map |-> v.indoor_map]

\* INSERT OR REPLACE INTO pois (name, category, latitude, longitude, description,
\* indoor_map): a row that conflicts on the primary key (the only uniqueness
\* constraint of the table) is replaced; the statement names no id.
InsertOrReplacePoi(rows, v) ==
    LET row == PoiRow(LastRowId(rows) + 1, v)
    IN  Append(SelectSeq(rows, LAMBDA r : r.id # row.id), row)

RECURSIVE ExecuteMany(_, _, _)
ExecuteMany(rows, values, i) ==
    IF i > Len(values) THEN rows
    ELSE ExecuteMany(InsertOrReplacePoi(rows, values[i]), values, i + 1)

\* The database file before the program ever ran.
NewDatabase == [pois |-> << >>, navigation_logs |-> << >>]

\* init_db: CREATE TABLE IF NOT EXISTS keeps the tables of an existing file.
init_db(database) ==
    [database EXCEPT !.pois = ExecuteMany(@, sample_pois, 1)]

\* str(start), str(end) and json.dumps(route_data): the text stored in the row.
Str(v) == [str |-> v]
JsonDumps(v) == [json |-> v]

\* log_navigation writing no row.
log_navigation_nowhere(database, user_id, start, end, route_data) == database

\* log_navigation that also stores the destination as a point of interest.
log_navigation_touching_pois(database, user_id, start, end, route_data) ==
    [database EXCEPT
        !.navigation_logs =
            Append(@, [id |-> LastRowId(@) + 1, user_id |-> user_id,
                       start_location |-> Str(start), end_location |-> Str(end),
                       route_data |-> JsonDumps(route_data)]),
        !.pois =
            Append(@, [id |-> LastRowId(@) + 1, name |-> "Destination",
                       category |-> "recent", latitude |-> end[2],
                       longitude |-> end[1], description |-> "Recent destination",
                       indoor_map |-> ""])]

\* log_navigation (the timestamp column, datetime.now(), is read by no handler
\* and is left out of the row).
log_navigation(database, user_id, start, end, route_data) ==
    [database EXCEPT !.navigation_logs =
        Append(@, [id |-> LastRowId(@) + 1, user_id |-> user_id,
                   start_location |-> Str(start), end_location |-> Str(end),
                   route_data |-> JsonDumps(route_data)])]

---------------------------------------------------------------------------
(* The handlers: each returns the response (and the database it leaves).    *)

NoResponse == [endpoint |-> "none", status |-> 0]

Failure(endpoint, status, error) ==
    [endpoint |-> endpoint, status |-> status, body |-> [error |-> error]]

\* poi_data as the loop of get_pois first builds it.
PoiJson(poi) ==
    [id |-> poi.id, name |-> poi.name, category |-> poi.category,
     latitude |-> poi.latitude, longitude |-> poi.longitude,
     description |-> poi.description, indoor_map |-> poi.indoor_map]

\* poi_data['distance'] = calculate_distance(...), which may raise.
PoiJsonWithDistance(poi, distance) ==
    IF distance.raised THEN [raised |-> TRUE]
    ELSE [raised |-> FALSE,
          value |-> [id |-> poi.id, name |-> poi.name, category |-> poi.category,
                     latitude |-> poi.latitude, longitude |-> poi.longitude,
                     description |-> poi.description, indoor_map |-> poi.indoor_map,
                     distance |-> distance.value]]

\* One element of poi_list: the distance key is set only "if lat and lon".
poi_data(poi, lat, lon) ==
    IF TruthyFloat(lat) /\ TruthyFloat(lon)
      THEN PoiJsonWithDistance(poi, DistanceTo(lat.value, lon.value,
                                               poi.latitude, poi.longitude))
      ELSE [raised |-> FALSE, value |-> PoiJson(poi)]

\* The loop "for poi in pois" of get_pois: poi_list.append(poi_data).
RECURSIVE poi_list(_, _, _, _, _)
RECURSIVE poi_list_append(_, _, _, _, _, _)
poi_list(fetched, lat, lon, i, acc) ==
    IF i > Len(fetched) THEN [raised |-> FALSE, value |-> acc]
    ELSE poi_list_append(fetched, lat, lon, i, acc, poi_data(fetched[i], lat, lon))

poi_list_append(fetched, lat, lon, i, acc, item) ==
    IF item.raised THEN [raised |-> TRUE]
    ELSE poi_list(fetched, lat, lon, i + 1, Append(acc, item.value))

\* SELECT * FROM pois [WHERE category = ?]: the rows in rowid order.
SelectPois(database, category) ==
    IF category # ""
      THEN SelectSeq(database.pois, LAMBDA r : r.category = category)
      ELSE database.pois

\* jsonify({'pois': poi_list}); an exception no handler catches is answered 500.
PoisResponse(args, fetched, listed) ==
    IF listed.raised THEN Failure("pois", 500, "math domain error")
    ELSE [endpoint |-> "pois", status |-> 200, request |-> args, rows |-> fetched,
          body |-> [pois |-> listed.value]]

ListPois(args, lat, lon, fetched) ==
    PoisResponse(args, fetched, poi_list(fetched, lat, lon, 1, << >>))

\* GET /api/pois (radius is read from the query string and used nowhere).
get_pois(database, args) ==
    LET category == IF args.category.given THEN args.category.value ELSE ""
        lat == args.lat
        lon == args.lon
        radius == IF args.radius.given THEN args.radius.value ELSE 1000
    IN  ListPois(args, lat, lon, SelectPois(database, category))

\* requests.get(url, params).json(): what the directions provider answers.
Directions(url, outcome) ==
    IF outcome = "unreachable" THEN [raised |-> TRUE]
    ELSE IF outcome = "refused"
      THEN [raised |-> FALSE, json |-> [message |-> "Not Authorized - Invalid Token"]]
      ELSE [raised |-> FALSE, json |-> [code |-> "Ok"]]

\* POST /api/route.
get_route(database, data, outcome) ==
    LET start == data.start
        end == data.end
        profile == IF data.profile.given THEN data.profile.value ELSE "walking"
        user_id == IF data.user_id.given THEN data.user_id.value ELSE "anonymous"
    IN  IF ~TruthyList(start) \/ ~TruthyList(end)
          THEN [db |-> database,
                response |-> Failure("route", 400, "Start and end coordinates required")]
        ELSE IF Len(start.value) < 2 \/ Len(end.value) < 2
          THEN [db |-> database,
                response |-> Failure("route", 500, "list index out of range")]
        ELSE LET url == [profile |-> profile,
                         coordinates |-> << start.value[1], start.value[2],
                                            end.value[1], end.value[2] >>]
                 reply == Directions(url, outcome)
             IN  IF reply.raised
                   THEN [db |-> database,
                         response |-> Failure("route", 500, "request failed")]
                   ELSE [db |-> log_navigation(database, user_id, start.value,
                                               end.value, reply.json),
                         response |-> [endpoint |-> "route", status |-> 200,
                                       body |-> reply.json]]

RECURSIVE SumDistance(_, _)
SumDistance(steps, i) ==
    IF i > Len(steps) THEN 0 ELSE steps[i].distance + SumDistance(steps, i + 1)

\* POST /api/indoor-route.
get_indoor_route(data) ==
    LET building_id == data.building_id
        start_beacon == data.start_beacon
        end_beacon == data.end_beacon
        indoor_directions == <<
            [instruction |-> "Head towards the main corridor", distance |-> 10],
            [instruction |-> "Turn right at the information board", distance |-> 15],
            [instruction |-> "Continue straight for 20 meters", distance |-> 20],
            [instruction |-> "Turn left at the end of corridor", distance |-> 8],
            [instruction |-> "Destination reached", distance |-> 0] >>
    IN  [endpoint |-> "indoor-route", status |-> 200,
         body |-> [indoor_route |-> indoor_directions,
                   total_distance |-> SumDistance(indoor_directions, 1),
                   estimated_time |-> "2-3 minutes"]]

\* InRange with the comparison "<=": a POI at exactly 100 m passes.
InRangeOrAt(distance) == FLe(distance, Dec(100, 0))

\* "Within 100 meters".
InRange(distance) == FLt(distance, Dec(100, 0))

\* ar_object that shows a POI only when it lies within 90 degrees of the heading.
ar_object_facing(lat, lon, heading, poi, distance) ==
    IF distance.raised THEN [raised |-> TRUE]
    ELSE IF /\ InRange(distance.value)
            /\ FLt(FAbs(FSub(BearingTo(lat, lon, poi.latitude, poi.longitude),
                             Dec(heading, 0))), Dec(90, 0))
      THEN [raised |-> FALSE, shown |-> TRUE,
            value |-> [name |-> poi.name, category |-> poi.category,
                       distance |-> Round1(distance.value),
                       bearing |-> BearingTo(lat, lon, poi.latitude, poi.longitude),
                       description |-> poi.description]]
      ELSE [raised |-> FALSE, shown |-> FALSE]

\* The body of the loop "for poi in all_pois", once distance is computed
\* (heading is read by the handler and used nowhere).
ar_object(lat, lon, heading, poi, distance) ==
    IF distance.raised THEN [raised |-> TRUE]
    ELSE IF InRange(distance.value)
      THEN [raised |-> FALSE, shown |-> TRUE,
            value |-> [name |-> poi.name, category |-> poi.category,
                       distance |-> Round1(distance.value),
                       bearing |-> BearingTo(lat, lon, poi.latitude, poi.longitude),
                       description |-> poi.description]]
      ELSE [raised |-> FALSE, shown |-> FALSE]

RECURSIVE ar_loop(_, _, _, _, _, _)
RECURSIVE ar_append(_, _, _, _, _, _, _)
ar_loop(lat, lon, heading, all_pois, i, acc) ==
    IF i > Len(all_pois) THEN [raised |-> FALSE, value |-> acc]
    ELSE ar_append(lat, lon, heading, all_pois, i, acc,
                   ar_object(lat, lon, heading, all_pois[i],
                             DistanceTo(lat, lon, all_pois[i].latitude,
                                        all_pois[i].longitude)))

ar_append(lat, lon, heading, all_pois, i, acc, item) ==
    IF item.raised THEN [raised |-> TRUE]
    ELSE ar_loop(lat, lon, heading, all_pois, i + 1,
                 IF item.shown THEN Append(acc, item.value) ELSE acc)

\* ar_objects that returns the nearest POI first.
NearestFirst(shown) ==
    IF shown.raised THEN shown
    ELSE [raised |-> FALSE,
          value |-> SortSeq(shown.value, LAMBDA o1, o2 : FLt(o1.distance, o2.distance))]

ar_objects_nearest_first(lat, lon, heading, all_pois) ==
    NearestFirst(ar_loop(lat, lon, heading, all_pois, 1, << >>))

ar_objects(lat, lon, heading, all_pois) ==
    ar_loop(lat, lon, heading, all_pois, 1, << >>)

\* jsonify({'ar_objects': ar_objects}); an exception no handler catches is
\* answered 500.
ArResponse(data, all_pois, shown) ==
    IF shown.raised THEN Failure("ar-overlay", 500, "math domain error")
    ELSE [endpoint |-> "ar-overlay", status |-> 200, request |-> data,
          rows |-> all_pois, body |-> [ar_objects |-> shown.value]]

\* POST /api/ar-overlay.  With no latitude or longitude in the body the first
\* calculate_distance raises TypeError.
get_ar_overlay(database, data) ==
    LET lat == data.latitude
        lon == data.longitude
        heading == IF data.heading.given THEN data.heading.value ELSE 0
        all_pois == database.pois
    IN  IF Len(all_pois) > 0 /\ (~lat.given \/ ~lon.given)
          THEN Failure("ar-overlay", 500, "must be real number, not NoneType")
          ELSE ArResponse(data, all_pois,
                          ar_objects(lat.value, lon.value, heading, all_pois))

\* SELECT end_location, COUNT(*) ... GROUP BY end_location ORDER BY count DESC
\* LIMIT 5 (rows with equal counts come in an order SQL leaves open).
CountOf(logs, dest) ==
    Cardinality({ i \in 1..Len(logs) : logs[i].end_location = dest })

RECURSIVE TopDestinations(_, _, _)
TopDestinations(logs, dests, limit) ==
    IF dests = {} \/ limit = 0 THEN << >>
    ELSE LET top == CHOOSE d \in dests :
                        \A o \in dests : CountOf(logs, o) <= CountOf(logs, d)
         IN  << [destination |-> top, count |-> CountOf(logs, top)] >>
               \o TopDestinations(logs, dests \ {top}, limit - 1)

\* GET /api/analytics.
get_analytics(database) ==
    LET logs == database.navigation_logs
        popular_destinations ==
            TopDestinations(logs, { logs[i].end_location : i \in 1..Len(logs) }, 5)
        total_navigations == Len(logs)
    IN  [endpoint |-> "analytics", status |-> 200,
         body |-> [total_navigations |-> total_navigations,
                   popular_destinations |-> popular_destinations]]

---------------------------------------------------------------------------
(* The requests of the model.                                               *)

\* GET /api/pois?category=&lat=&lon=&radius=: no position; the main entrance;
\* a device on the equator; on the prime meridian; a latitude alone.
PoiQueries ==
    [category : {NoArg, Arg("dining")}, lat : {NoArg}, lon : {NoArg}, radius : {NoArg}]
    \cup [category : {NoArg, Arg("dining")}, lat : {Arg(AtEntrance.lat)},
          lon : {Arg(AtEntrance.lon)}, radius : {Arg(50)}]
    \cup [category : {NoArg}, lat : {Arg(Dec(0, 0)), Arg(AtEntrance.lat)},
          lon : {Arg(Dec(0, 0)), Arg(AtEntrance.lon)}, radius : {NoArg}]
    \cup [category : {NoArg}, lat : {Arg(AtEntrance.lat)}, lon : {NoArg},
          radius : {NoArg}]

\* POST /api/route bodies; coordinates are [longitude, latitude].
InfoDesk == << Dec(738570, -4), Dec(185208, -4) >>
RouteBodies ==
    [start : {NoArg, Arg(<< >>), Arg(<< AtEntrance.lon >>),
              Arg(<< AtEntrance.lon, AtEntrance.lat >>)},
     end : {Arg(InfoDesk)}, profile : {NoArg}, user_id : {NoArg}]
    \cup [start : {Arg(<< AtEntrance.lon, AtEntrance.lat >>)}, end : {NoArg},
          profile : {NoArg}, user_id : {Arg("u1")}]

\* The directions provider answers with a route, answers that the token is not
\* valid, or cannot be reached.
ProviderOutcomes == {"ok", "refused", "unreachable"}

IndoorBodies ==
    [building_id : {Arg("main")}, start_beacon : {Arg("b1")}, end_beacon : {Arg("b2")}]

\* POST /api/ar-overlay bodies: 100 m from the restroom with and without a
\* heading, at the main entrance, and a body with no position.
ArBodies ==
    [latitude : {Arg(NearRestroom.lat)}, longitude : {Arg(NearRestroom.lon)},
     heading : {NoArg, Arg(90)}]
    \cup [latitude : {Arg(AtEntrance.lat)}, longitude : {Arg(AtEntrance.lon)},
          heading : {Arg(90)}]
    \cup [latitude : {NoArg}, longitude : {NoArg}, heading : {NoArg}]

NoWatch == [set |-> FALSE]

\* Coordinate pairs handed to the utility functions on their own.
GeoPoints ==
    { << sample_pois[k].latitude, sample_pois[k].longitude >> : k \in {1, 2, 4, 6} }
    \cup { << NearRestroom.lat, NearRestroom.lon >>,
           << Dec(0, 0), Dec(0, 0) >>, << Dec(0, 0), Dec(738567, -4) >>,
           << Dec(90, 0), Dec(0, 0) >>, << Dec(-90, 0), Dec(0, 0) >>,
           << Dec(7575, -2), Dec(0, 0) >>, << Dec(-7575, -2), Dec(-180, 0) >>,
           << Dec(185204, -4), Dec(-1061433, -4) >> }

Pending == [done |-> FALSE]

NoGeo == [from |-> << Zero, Zero >>, to |-> << Zero, Zero >>,
          distance |-> Pending, bearing |-> Pending]

---------------------------------------------------------------------------
(* The state machine.                                                       *)

\* The module is imported: init_db() has run once against a new database file.
Init ==
    /\ db = init_db(NewDatabase)
    /\ response = NoResponse
    /\ init_runs = 1
    /\ route_requests = 0
    /\ routes_answered = 0
    /\ ar_watch = NoWatch
    /\ geo = NoGeo

\* The process starts again (or another worker imports the module): init_db().
InitDb ==
    /\ init_runs < MaxInitRuns
    /\ db' = init_db(db)
    /\ init_runs' = init_runs + 1
    /\ ar_watch' = NoWatch
    /\ UNCHANGED << response, route_requests, routes_answered, geo >>

GetPois ==
    /\ \E args \in PoiQueries : response' = get_pois(db, args)
    /\ UNCHANGED << db, init_runs, route_requests, routes_answered, ar_watch, geo >>

GetRoute ==
    /\ route_requests < MaxRouteRequests
    /\ \E data \in RouteBodies, outcome \in ProviderOutcomes :
          LET result == get_route(db, data, outcome)
          IN  /\ db' = result.db
              /\ response' = result.response
              /\ routes_answered' =
                    IF result.response.status = 200
                      THEN routes_answered + 1 ELSE routes_answered
    /\ route_requests' = route_requests + 1
    /\ UNCHANGED << init_runs, ar_watch, geo >>

GetIndoorRoute ==
    /\ \E data \in IndoorBodies : response' = get_indoor_route(data)
    /\ UNCHANGED << db, init_runs, route_requests, routes_answered, ar_watch, geo >>

\* The overlay request; ar_watch may keep it to compare a later answer with.
GetArOverlay ==
    /\ \E data \in ArBodies :
          /\ response' = get_ar_overlay(db, data)
          /\ \/ ar_watch' = ar_watch
             \/ /\ response'.status = 200
                /\ ar_watch' = [set |-> TRUE, request |-> data,
                                body |-> response'.body,
                                logged |-> Len(db.navigation_logs)]
    /\ UNCHANGED << db, init_runs, route_requests, routes_answered, geo >>

GetAnalytics ==
    /\ response' = get_analytics(db)
    /\ UNCHANGED << db, init_runs, route_requests, routes_answered, ar_watch, geo >>

Next ==
    \/ InitDb
    \/ GetPois
    \/ GetRoute
    \/ GetIndoorRoute
    \/ GetArOverlay
    \/ GetAnalytics

Spec == Init /\ [][Next]_vars

\* The utility functions on their own: a pair of coordinates is drawn, then
\* calculate_distance and calculate_bearing are applied to it.
InitGeo ==
    /\ db = init_db(NewDatabase)
    /\ response = NoResponse
    /\ init_runs = 1
    /\ route_requests = 0
    /\ routes_answered = 0
    /\ ar_watch = NoWatch
    /\ geo \in { [from |-> a, to |-> b, distance |-> Pending, bearing |-> Pending]
                 : a \in GeoPoints, b \in GeoPoints }

CalculateDistance ==
    /\ ~geo.distance.done
    /\ geo' = [geo EXCEPT !.distance =
                  LET d == calculate_distance(geo.from[1], geo.from[2],
                                              geo.to[1], geo.to[2])
                  IN  [done |-> TRUE, raised |-> d.raised, value |-> d.value]]
    /\ UNCHANGED << db, response, init_runs, route_requests, routes_answered, ar_watch >>

CalculateBearing ==
    /\ ~geo.bearing.done
    /\ geo' = [geo EXCEPT !.bearing =
                  [done |-> TRUE,
                   value |-> calculate_bearing(geo.from[1], geo.from[2],
                                               geo.to[1], geo.to[2])]]
    /\ UNCHANGED << db, response, init_runs, route_requests, routes_answered, ar_watch >>

NextGeo == CalculateDistance \/ CalculateBearing

SpecGeo == InitGeo /\ [][NextGeo]_vars

---------------------------------------------------------------------------
(* The claims.                                                              *)

\* The request handled last was answered 200 by the given endpoint.
Answered(endpoint) == response.endpoint = endpoint /\ response.status = 200

\* The device position of the overlay request handled last.
ArLat == response.request.latitude.value
ArLon == response.request.longitude.value

\* The number of elements of a sequence that carry the given name.
Named(seq, indices, name) == Cardinality({ i \in indices : seq[i].name = name })

\* C1: the AR overlay contains a POI if and only if its computed distance from
\* the device is strictly less than 100: for every POI name, the overlay holds
\* as many objects of that name as the fetched rows hold within 100 m.
C1_OverlayIsWithin100 ==
    Answered("ar-overlay") =>
        LET rows == response.rows
            within == { j \in DOMAIN rows :
                          FLt(DistanceTo(ArLat, ArLon, rows[j].latitude,
                                         rows[j].longitude).value, Dec(100, 0)) }
        IN  \A k \in DOMAIN rows :
                Named(response.body.ar_objects, DOMAIN response.body.ar_objects,
                      rows[k].name)
                  = Named(rows, within, rows[k].name)

\* An overlay that shows some POIs and leaves out a POI at exactly 100 m.
C1_Witness ==
    /\ Answered("ar-overlay")
    /\ Len(response.body.ar_objects) > 0
    /\ \E j \in DOMAIN response.rows :
          /\ DistanceTo(ArLat, ArLon, response.rows[j].latitude,
                        response.rows[j].longitude).value = Dec(100, 0)
          /\ \A i \in DOMAIN response.body.ar_objects :
                response.body.ar_objects[i].name # response.rows[j].name

\* C2: when a device coordinate and a radius are supplied to the POI query, the
\* result contains exactly the candidate POIs whose computed distance from the
\* device is strictly less than the radius.
C2_ResultIsWithinRadius ==
    ( /\ Answered("pois")
      /\ response.request.lat.given /\ response.request.lon.given
      /\ response.request.radius.given ) =>
        \A j \in DOMAIN response.rows :
            (\E i \in DOMAIN response.body.pois :
                response.body.pois[i].id = response.rows[j].id)
              <=> FLt(DistanceTo(response.request.lat.value, response.request.lon.value,
                                 response.rows[j].latitude,
                                 response.rows[j].longitude).value,
                      Dec(response.request.radius.value, 0))

\* C3 as stated: after any sequence of requests the number of rows in
\* navigation_logs equals the number of route requests received.
C3_EveryRouteRequestIsLogged == Len(db.navigation_logs) = route_requests

\* C3, amended: the number of rows in navigation_logs equals the number of route
\* requests answered 200 (start and end present, the directions provider's
\* answer received); a request answered 400 or 500 writes no row.
C3_AnsweredRoutesAreLogged == Len(db.navigation_logs) = routes_answered

\* Some route request was logged and some route request was not.
C3_Witness == routes_answered > 0 /\ route_requests > routes_answered

\* C4: the device heading does not affect the AR overlay: for the position and
\* the rows of the overlay request handled last, every heading (0 is the value
\* of a missing heading) yields the objects of the answer, in its order.
C4_HeadingIsIgnored ==
    Answered("ar-overlay") =>
        \A heading \in {0, 90, 270} :
            ar_objects(ArLat, ArLon, heading, response.rows).value
              = response.body.ar_objects

\* An overlay request with heading 90 that was answered with some objects.
C4_Witness ==
    /\ Answered("ar-overlay")
    /\ response.request.heading = Arg(90)
    /\ Len(response.body.ar_objects) > 0

\* C5: the AR overlay is repeatable: an overlay request with the latitude,
\* longitude and heading of an earlier one gets the earlier answer, object for
\* object, whatever requests were handled in between.
C5_OverlayIsRepeatable ==
    ( /\ ar_watch.set
      /\ Answered("ar-overlay")
      /\ response.request = ar_watch.request ) =>
        response.body = ar_watch.body

\* The overlay request is repeated after a route request was logged in between.
C5_Witness ==
    /\ ar_watch.set
    /\ Answered("ar-overlay")
    /\ response.request = ar_watch.request
    /\ Len(response.body.ar_objects) > 0
    /\ ar_watch.logged < Len(db.navigation_logs)

\* s[i..] is a subsequence of t[j..]: its elements occur in t in their order.
RECURSIVE IsSubsequence(_, _, _, _)
IsSubsequence(s, t, i, j) ==
    IF i > Len(s) THEN TRUE
    ELSE IF j > Len(t) THEN FALSE
    ELSE IF s[i] = t[j] THEN IsSubsequence(s, t, i + 1, j + 1)
    ELSE IsSubsequence(s, t, i, j + 1)

\* What an overlay object and a listed POI keep of the row they come from.
ArKey(o) == [name |-> o.name, category |-> o.category, description |-> o.description]
PoiKey(o) == [id |-> o.id, name |-> o.name]

\* C6: the listed POIs and the overlay objects are a subsequence of the fetched
\* rows, in the rows' relative order: nothing is reordered or duplicated.
C6_OutputKeepsRowOrder ==
    /\ Answered("ar-overlay") =>
          IsSubsequence([i \in DOMAIN response.body.ar_objects |->
                            ArKey(response.body.ar_objects[i])],
                        [j \in DOMAIN response.rows |-> ArKey(response.rows[j])], 1, 1)
    /\ Answered("pois") =>
          IsSubsequence([i \in DOMAIN response.body.pois |->
                            PoiKey(response.body.pois[i])],
                        [j \in DOMAIN response.rows |-> PoiKey(response.rows[j])], 1, 1)

\* An overlay that shows some of the rows and skips a row before the last shown.
C6_Witness ==
    /\ Answered("ar-overlay")
    /\ Len(response.body.ar_objects) > 1
    /\ \E j \in DOMAIN response.rows :
          /\ \A i \in DOMAIN response.body.ar_objects :
                response.body.ar_objects[i].name # response.rows[j].name
          /\ \E k \in DOMAIN response.rows :
                /\ k > j
                /\ response.rows[k].name
                     = response.body.ar_objects[Len(response.body.ar_objects)].name

\* C7: the distance function never raises for a finite, range-valid pair of
\* coordinates (latitudes in [-90, 90], longitudes in [-180, 180]).
C7_DistanceNeverRaises == geo.distance.done => ~geo.distance.raised

\* C8: whenever both lat and lon are present in a POI query, 0 included, every
\* returned POI carries a computed distance; when lat or lon is absent, none
\* does.
C8_DistanceWhenPositionPresent ==
    Answered("pois") =>
        IF response.request.lat.given /\ response.request.lon.given
          THEN \A i \in DOMAIN response.body.pois :
                  "distance" \in DOMAIN response.body.pois[i]
          ELSE \A i \in DOMAIN response.body.pois :
                  "distance" \notin DOMAIN response.body.pois[i]

\* C9: the result of the bearing function lies in [0, 360), and is 0 when the
\* two coordinates coincide.
C9_BearingIsNormalised ==
    geo.bearing.done =>
        /\ FLe(Zero, geo.bearing.value)
        /\ FLt(geo.bearing.value, Dec(360, 0))
        /\ geo.from = geo.to => geo.bearing.value = Zero

\* A bearing to the west of north: one that atan2 returned as a negative angle.
C9_Witness ==
    /\ geo.bearing.done
    /\ geo.from # geo.to
    /\ FLt(Dec(180, 0), geo.bearing.value)

\* C10: after any number of runs of init_db the pois table holds exactly the 8
\* seed POIs, each with its first id, so that a query for category 'dining'
\* returns exactly one POI.
C10_InitDbIsIdempotent ==
    /\ db.pois = [k \in 1..Len(sample_pois) |-> PoiRow(k, sample_pois[k])]
    /\ ( Answered("pois") /\ response.request.category = Arg("dining") )
          => Len(response.body.pois) = 1

===========================================================================
